---- MODULE Spec2Model ----
(***************************************************************************)
(* racetime-bot: the Bot orchestrator (bot.py), the RaceHandler room       *)
(* session (handler.py) and the permission decorators (__init__.py).       *)
(*                                                                         *)
(* One asyncio event loop runs three kinds of tasks: Bot.reauthorize,      *)
(* Bot.refresh_races and one RaceHandler.handle task per race room.  The   *)
(* tasks are cooperatively scheduled, so every action below is the code    *)
(* that runs between two suspension points (await) of one task.            *)
(***************************************************************************)
EXTENDS Integers, Sequences, FiniteSets, TLC

\* ------------------------------------------------------------------ bounds
MaxSessions == 2        \* handler objects created during one run
MaxInbox == 1           \* frames buffered by a websocket, not yet consumed
MaxGuid == 2            \* correlation ids drawn during one run
MaxLen == 4             \* characters of a chat text (router specification)
MaxSlack == 10          \* expires_in values tried on each side of the margin

\* ------------------------------------------------------- program constants
SafetyMargin == 600             \* bot.py:140,143
DefaultExpiresIn == 36000       \* bot.py:97

Rooms == {"r1", "r2"}
SessionIds == 1..MaxSessions
NoTask == 0
NoMap == 0

\* RaceHandler.stop_at
stop_at == {"cancelled", "finished"}

\* status.value of a race: a missing status reads as None
None == "None"
Statuses == {"open", "finished", "cancelled", None}

\* Bot.continue_on
continue_on == {"ConnectionClosed"}

\* ------------------------------------------------------------------- text
\* A chat text is a sequence of characters; TAB is "\t".
TAB == "\t"
Alphabet == {"!", "s", "S", "d", " ", TAB}

\* str.lower() on one character
LowerChar(c) == IF c = "S" THEN "s" ELSE IF c = "D" THEN "d" ELSE c

\* str.lower()
lower(t) == [i \in 1..Len(t) |-> LowerChar(t[i])]

\* str.split(' '): cuts at every single space, keeps empty pieces
RECURSIVE split(_)
split(t) ==
    IF t = <<>> THEN << <<>> >>
    ELSE LET rest == split(Tail(t)) IN
         IF Head(t) = " " THEN << <<>> >> \o rest
         ELSE << <<Head(t)>> \o Head(rest) >> \o Tail(rest)

\* str.startswith
startswith(w, p) == Len(w) >= Len(p) /\ SubSeq(w, 1, Len(p)) = p

\* w[n:]
DropFirst(w, n) == IF n >= Len(w) THEN <<>> ELSE SubSeq(w, n + 1, Len(w))

\* Bot.get_handler_kwargs: 'command_prefix': '!'
command_prefix == <<"!">>

\* --------------------------------------------------------------- messages
\* An inbound frame, decoded.  type is None when the frame has no 'type' key;
\* race is the status.value of data['race'], or Null when there is no 'race'
\* key.  The remaining fields are those of data['message'].
Null == "null"
Users == {"absent", "anon", "alice", "bob"}

Msg(type, race, text, is_bot, is_system, user, is_monitor) ==
    [type |-> type, race |-> race, text |-> text, is_bot |-> is_bot,
     is_system |-> is_system, user |-> user, is_monitor |-> is_monitor]

RaceData(status) == Msg("race.data", status, <<>>, FALSE, FALSE, "absent", FALSE)
ErrorMsg == Msg("error", Null, <<>>, FALSE, FALSE, "absent", FALSE)
OtherMsg(type) == Msg(type, Null, <<>>, FALSE, FALSE, "absent", FALSE)
Chat(text, is_bot, is_system, user, is_monitor) ==
    Msg("chat.message", Null, text, is_bot, is_system, user, is_monitor)

\* message.get('user', {}).get('name', 'friend')
reply_to(message) ==
    CASE message.user = "alice" -> "alice"
      [] message.user = "bob" -> "bob"
      [] OTHER -> "friend"

\* ------------------------------------------------------------ permissions
\* can_moderate: message.get('user', {}).get('can_moderate', False)
can_moderate(message) == message.user = "bob"

\* can_monitor: message.get('is_monitor', False)
can_monitor(message) == message.is_monitor

\* No message has been put to the predicates yet.
NoVerdict ==
    [asked |-> FALSE, message |-> OtherMsg(None), can_moderate |-> FALSE,
     can_monitor |-> FALSE]

perm_fn(perm, message) ==
    IF perm = "can_moderate" THEN can_moderate(message) ELSE can_monitor(message)

\* error_msg % {'reply_to': reply_to}
error_text(perm, name) ==
    IF perm = "can_moderate"
    THEN <<"Sorry ", name, ", only moderators can do that.">>
    ELSE <<"Sorry ", name, ", only race monitors can do that.">>

\* ---------------------------------------------------------------- effects
\* What one call did: the command handlers it invoked (calls), the command
\* bodies that ran (ran), the frames it wrote to the socket (sent), the
\* error-level log lines (log), whether it wrote into self.state (wrote), and
\* the class of the exception it raised ("none" when it returned).
Eff(calls, ran, sent, log, wrote, raised) ==
    [calls |-> calls, ran |-> ran, sent |-> sent, log |-> log,
     wrote |-> wrote, raised |-> raised]

NoEff == Eff(<<>>, <<>>, <<>>, <<>>, FALSE, "none")

\* Faulty variant of send_message: the id is drawn once, when the method is
\* defined, and every frame carries it.
send_message_one_guid(message, guid) ==
    [action |-> "message", message |-> message, guid |-> 1]

\* RaceHandler.send_message: one frame, action 'message', with the text and
\* str(uuid.uuid4()); guid is the next id the generator yields.
send_message(message, guid) ==
    [action |-> "message", message |-> message, guid |-> guid]

\* ---------------------------------------------------------- command table
\* The ex_* methods of the handler class in use.  RaceHandler itself defines
\* none; these are the commands of a bot author's subclass:
\*   ex_s  plain command            ex_b  its body raises an Exception
\*   ex_w  writes into self.state   ex_m  @moderator_cmd, ex_n  @monitor_cmd,
\*         both with the body of the decorators' docstring (sends '...').
Commands == {<<"s">>, <<"b">>, <<"w">>, <<"m">>, <<"n">>}

\* hasattr(self, 'ex_' + name)
hasattr_ex(name) == name \in Commands

\* the undecorated body of ex_<name>
body(name, args, message, guid) ==
    CASE name = <<"b">> -> Eff(<<>>, <<name>>, <<>>, <<>>, FALSE, "Exception")
      [] name = <<"w">> -> Eff(<<>>, <<name>>, <<>>, <<>>, TRUE, "none")
      [] name \in {<<"m">>, <<"n">>} ->
             Eff(<<>>, <<name>>, <<send_message(<<"...">>, guid)>>, <<>>, FALSE, "none")
      [] OTHER -> Eff(<<>>, <<name>>, <<>>, <<>>, FALSE, "none")

\* Faulty variant of _restrict_cmd: the permission test left out.
_restrict_cmd_no_gate(name, perm, args, message, guid) ==
    body(name, args, message, guid)

\* _restrict_cmd.wrap
_restrict_cmd(name, perm, args, message, guid) ==
    IF perm_fn(perm, message)
    THEN body(name, args, message, guid)
    ELSE Eff(<<>>, <<>>,
             <<send_message(error_text(perm, reply_to(message)), guid)>>,
             <<>>, FALSE, "none")

\* getattr(self, 'ex_' + name)(args, message)
ex_(name, args, message, guid) ==
    CASE name = <<"m">> -> _restrict_cmd(name, "can_moderate", args, message, guid)
      [] name = <<"n">> -> _restrict_cmd(name, "can_monitor", args, message, guid)
      [] OTHER -> body(name, args, message, guid)

\* Faulty variant of try_command: no try/except around the command.
try_command_propagates(e) == e

\* chat_message, lines 122-125: try ... except Exception: logger.error(...)
try_command(e) ==
    IF e.raised = "Exception"
    THEN [e EXCEPT !.raised = "none",
                   !.log = Append(e.log, "Command raised exception.")]
    ELSE e

\* Faulty variant of is_ignored: system messages are not filtered.
is_ignored_bot_only(message) == message.is_bot

\* chat_message, line 109
is_ignored(message) == message.is_bot \/ message.is_system

\* chat_message, line 113
words_of(message) == split(lower(message.text))

\* chat_message, line 114
is_command(words) == words # <<>> /\ startswith(words[1], lower(command_prefix))

\* RaceHandler.chat_message
chat_message(message, guid) ==
    IF is_ignored(message) THEN NoEff
    ELSE LET words == words_of(message) IN
         IF is_command(words)
         THEN LET method == DropFirst(words[1], Len(command_prefix))
                  args == Tail(words)
              IN  IF hasattr_ex(method)
                  THEN LET e == try_command(ex_(method, args, message, guid)) IN
                       [e EXCEPT !.calls = <<[method |-> method, args |-> args,
                                              message |-> message]>>]
                  ELSE NoEff
         ELSE NoEff

\* RaceHandler.should_stop
should_stop(data) == data \in stop_at

\* hasattr(self, method) for the method names consume derives from a type
\* that is not one of the three built-in events: attributes and methods of
\* RaceHandler that are no event handlers.
\* Attributes that hold a value: calling one raises TypeError.
NotCallableAttrs == {"data", "state", "ws", "conn", "logger", "command_prefix",
                     "stop_at"}

\* Methods that take no argument besides self: called with the frame, they
\* raise TypeError.
NoArgMethods == {"begin", "end", "handle", "should_stop", "set_open",
                 "set_invitational", "force_start", "cancel_race"}

\* Methods that take one argument and write one frame to the socket: the
\* action of the frame and the key under which it carries the argument.
\* (set_raceinfo: the rooms here carry no info_user, so the argument is sent
\* as it is.)
OneArgMethods ==
    [send_message |-> <<"message", "message">>,
     set_bot_raceinfo |-> <<"setinfo", "info_bot">>,
     set_raceinfo |-> <<"setinfo", "info_user">>,
     invite_user |-> <<"invite", "user">>,
     accept_request |-> <<"accept_request", "user">>,
     force_unready |-> <<"force_unready", "user">>,
     remove_entrant |-> <<"remove_entrant", "user">>,
     add_monitor |-> <<"add_monitor", "user">>,
     remove_monitor |-> <<"remove_monitor", "user">>]

NonHandlerAttrs ==
    NotCallableAttrs \cup NoArgMethods \cup {"consume"} \cup DOMAIN OneArgMethods

\* The frame a one-argument method writes when it is called with arg:
\* send_message adds str(uuid.uuid4()), the others only wrap the argument.
action_frame(method, arg, guid) ==
    IF method = "send_message" THEN send_message(arg, guid)
    ELSE [action |-> OneArgMethods[method][1], key |-> OneArgMethods[method][2],
          value |-> arg]

\* the number of ids uuid.uuid4() yielded for the frames of sent
RECURSIVE uuids_drawn(_)
uuids_drawn(sent) ==
    IF sent = <<>> THEN 0
    ELSE (IF Head(sent).action = "message" THEN 1 ELSE 0) + uuids_drawn(Tail(sent))

\* Faulty variant of consume: getattr without the hasattr test, so a type
\* without a handler raises.
consume_no_hasattr(data, message, guid) ==
    CASE message.type = "race.data" ->
             [data |-> message.race, eff |-> NoEff]
      [] message.type = "chat.message" ->
             [data |-> data, eff |-> chat_message(message, guid)]
      [] message.type = "error" ->
             [data |-> data, eff |-> [NoEff EXCEPT !.raised = "Exception"]]
      [] OTHER ->
             [data |-> data, eff |-> [NoEff EXCEPT !.raised = "AttributeError"]]

\* RaceHandler.consume: the new data snapshot and the effects of the event
\* handler it dispatches to.
consume(data, message, guid) ==
    CASE message.type = None ->
             \* msg_type.replace on None
             [data |-> data, eff |-> [NoEff EXCEPT !.raised = "AttributeError"]]
      [] message.type = "race.data" ->
             [data |-> message.race, eff |-> NoEff]
      [] message.type = "chat.message" ->
             [data |-> data, eff |-> chat_message(message, guid)]
      [] message.type = "error" ->
             [data |-> data, eff |-> [NoEff EXCEPT !.raised = "Exception"]]
      [] message.type \in NotCallableAttrs \cup NoArgMethods ->
             \* a non-callable attribute, or a method called with one argument
             \* too many
             [data |-> data, eff |-> [NoEff EXCEPT !.raised = "TypeError"]]
      [] message.type = "consume" ->
             \* consume awaits consume on the same frame, without end
             [data |-> data, eff |-> [NoEff EXCEPT !.raised = "RecursionError"]]
      [] message.type \in DOMAIN OneArgMethods ->
             \* the method is called with the whole frame as its argument
             [data |-> data,
              eff |-> [NoEff EXCEPT
                         !.sent = <<action_frame(message.type, message, guid)>>]]
      [] OTHER ->
             [data |-> data, eff |-> NoEff]

\* ------------------------------------------------------------------ state
VARIABLES
    handlers,           \* Bot.handlers: room name -> session task, or NoTask
    races,              \* Bot.races: the names of the last fetched room list
    state,              \* Bot.state: room name -> mapping, or NoMap
    heap,               \* the contents of every mapping ever created
    sessions,           \* the RaceHandler objects and their handle() tasks
    scan,               \* where Bot.refresh_races stands
    loopRunning,        \* FALSE once handle_exception called loop.stop()
    report,             \* the last failure outside the tasks of the bot: its
                        \* context, and whether handle_exception has had it
    access_token,       \* Bot.access_token
    reauthorize_every,  \* Bot.reauthorize_every
    auth,               \* where Bot.reauthorize stands: pc, the delay of its
                        \* sleep, the time slept since the token arrived
    nextGuid,           \* the next id uuid.uuid4() yields
    verdict             \* the last message the permission predicates were
                        \* asked about, and what each of them answered

vars == <<handlers, races, state, heap, sessions, scan, loopRunning, report,
          access_token, reauthorize_every, auth, nextGuid, verdict>>

botVars == <<handlers, races, state, scan>>
authVars == <<access_token, reauthorize_every, auth>>

Tokens == {"tokA", "tokB"}

\* A handler and its task: the room it was created for; where handle()
\* stands (pc); data, state and the Authorization token of its connection;
\* the frames received and not yet read (inbox); the frame being processed
\* (msg, the loop variable of handle) and what consuming it did (eff); how
\* often begin() and end() ran; the exception that ended the task.
NoMsg == OtherMsg("-")

Blank(room, pc, st, token) ==
    [room |-> room, pc |-> pc, data |-> None, state |-> st, token |-> token,
     inbox |-> <<>>, msg |-> NoMsg, eff |-> NoEff,
     begun |-> 0, ended |-> 0, exc |-> "none"]

\* A handler that does not exist yet, and (pc = "reaped") one whose task is
\* done and whose done callback has run: the task and the handler are
\* garbage, only the room and the mapping it held are remembered.
Unborn == Blank("-", "unborn", NoMap, "-")

\* RaceHandler.__init__: data = {}, ws = None, state = the mapping handed in
NewHandler(room, st, token) == Blank(room, "connecting", st, token)

Live(s) == sessions[s].pc \in {"connecting", "recv", "check"}
Open(s) == sessions[s].pc \in {"recv", "check"}

\* ------------------------------------------------------------ RaceHandler
\* handle, lines 350-352: the connection opens, self.ws is set, begin() runs;
\* or the handshake fails and the exception leaves handle.
Connect(s) ==
    /\ loopRunning
    /\ sessions[s].pc = "connecting"
    /\ \E ok \in BOOLEAN :
         sessions' = [sessions EXCEPT ![s] =
            IF ok THEN [@ EXCEPT !.pc = "recv", !.begun = @ + 1]
                  ELSE [@ EXCEPT !.pc = "finished", !.exc = "InvalidHandshake"]]
    /\ UNCHANGED <<verdict, botVars, authVars, heap, loopRunning, report, nextGuid>>

\* The server sends a frame of M on the open connection of session s.
ServerSend(s, M) ==
    /\ loopRunning
    /\ Open(s)
    /\ Len(sessions[s].inbox) < MaxInbox
    /\ \E m \in M :
         sessions' = [sessions EXCEPT ![s].inbox = Append(@, m)]
    /\ UNCHANGED <<verdict, botVars, authVars, heap, loopRunning, report, nextGuid>>

\* Faulty variant of recv: the frame that arrived last is read first.
recv_newest(inbox) ==
    [message |-> inbox[Len(inbox)], rest |-> SubSeq(inbox, 1, Len(inbox) - 1)]

\* handle, line 353: the iteration over the websocket yields the frame that
\* arrived first and leaves the others waiting.
recv(inbox) == [message |-> Head(inbox), rest |-> Tail(inbox)]

\* handle, lines 353-355: the next frame is read and consumed.
Consume(s) ==
    /\ loopRunning
    /\ sessions[s].pc = "recv"
    /\ sessions[s].inbox # <<>>
    /\ LET h == sessions[s]
           next == recv(h.inbox)
           r == consume(h.data, next.message, nextGuid)
       IN  /\ nextGuid + uuids_drawn(r.eff.sent) <= MaxGuid + 1
           /\ sessions' = [sessions EXCEPT ![s] =
                [h EXCEPT !.inbox = next.rest,
                          !.msg = next.message,
                          !.data = r.data,
                          !.eff = r.eff,
                          !.exc = r.eff.raised,
                          !.pc = IF r.eff.raised = "none" THEN "check"
                                 ELSE "finished"]]
           /\ heap' = IF r.eff.wrote
                      THEN [heap EXCEPT ![h.state] = @ \cup {s}]
                      ELSE heap
           /\ nextGuid' = nextGuid + uuids_drawn(r.eff.sent)
    /\ UNCHANGED <<verdict, botVars, authVars, loopRunning, report>>

\* Faulty variant of after_end: end() runs but the loop is not left.
after_end_no_break(h) == [h EXCEPT !.pc = "recv", !.ended = @ + 1]

\* handle, line 358: break
after_end(h) == [h EXCEPT !.pc = "finished", !.ended = @ + 1]

\* handle, lines 356-358: the stop predicate, the end hook and the break.
StopCheck(s) ==
    /\ loopRunning
    /\ sessions[s].pc = "check"
    /\ sessions[s].ended < 2
    /\ LET h == sessions[s] IN
       sessions' = [sessions EXCEPT ![s] =
          IF h.data = Null
          THEN \* self.data.get on None
               [h EXCEPT !.pc = "finished", !.exc = "AttributeError"]
          ELSE IF should_stop(h.data) THEN after_end(h)
          ELSE \* back to the head of the loop: msg is dead until the next read
               [h EXCEPT !.pc = "recv", !.msg = NoMsg, !.eff = NoEff]]
    /\ UNCHANGED <<verdict, botVars, authVars, heap, loopRunning, report, nextGuid>>

\* handle, line 353: the iteration over the websocket ends because the
\* connection closed: normally (the loop just ends) or with the library's
\* connection-closed exception, whose class depends on the installed
\* websockets release.
ConnClosed(s) ==
    /\ loopRunning
    /\ sessions[s].pc = "recv"
    /\ sessions[s].inbox = <<>>
    /\ \E e \in {"none", "ConnectionClosed", "ConnectionClosedError"} :
         sessions' = [sessions EXCEPT ![s] = [@ EXCEPT !.pc = "finished", !.exc = e]]
    /\ UNCHANGED <<verdict, botVars, authVars, heap, loopRunning, report, nextGuid>>

\* -------------------------------------------------------------------- Bot
\* A context the loop hands to its exception handler: the exception it
\* carries, or None when the key is missing.
Context(exception) == [exception |-> exception]
NoContext == Context("-")
NoReport == [context |-> NoContext, handled |-> TRUE]

\* Faulty variant of handle_exception: a context without an exception does
\* not stop the loop.
handle_exception_needs_exception(running, ctx) ==
    IF ctx.exception # None /\ ctx.exception \notin continue_on THEN FALSE
    ELSE running

\* Bot.handle_exception: does the loop keep running after this context?
handle_exception(running, ctx) ==
    IF ctx.exception = None \/ ctx.exception \notin continue_on THEN FALSE
    ELSE running

\* The loop reports the exception a task or a callback of the bot left
\* behind to the handler set by run(); exc = "none" is a task that ended
\* without an exception, for which nothing is reported.
call_exception_handler(running, exc) ==
    IF exc = "none" THEN running
    ELSE handle_exception(running, Context(exc))

\* Faulty variant of done: the callback leaves the entry in place.
done_keeps(h, name) == h

\* refresh_races.done: del self.handlers[task_name]
done(h, name) == [h EXCEPT ![name] = NoTask]

\* The done callback of a finished task, then the task is dropped: an
\* exception nobody retrieved is reported to the loop's exception handler.
\* A missing key makes the callback itself raise KeyError.
TaskDone(s) ==
    /\ loopRunning
    /\ sessions[s].pc = "finished"
    /\ LET name == sessions[s].room
           keyError == handlers[name] = NoTask
       IN  /\ handlers' = IF keyError THEN handlers ELSE done(handlers, name)
           /\ loopRunning' =
                call_exception_handler(
                    call_exception_handler(
                        loopRunning, IF keyError THEN "KeyError" ELSE "none"),
                    sessions[s].exc)
           /\ sessions' = [sessions EXCEPT ![s] =
                [Blank(name, "reaped", sessions[s].state, sessions[s].token)
                    EXCEPT !.exc = IF keyError THEN "KeyError" ELSE "none"]]
    /\ UNCHANGED <<verdict, races, state, scan, authVars, heap, report, nextGuid>>

\* the exceptions of the failures the loop reports on its own account or
\* for a library, and None for a failure that carries no exception
ReportedExceptions == {None, "ConnectionClosed", "OSError"}

\* A failure outside the tasks of the bot occurs (an object of a library is
\* found unclosed, a transport fails): the loop will report it.
LoopFailure ==
    /\ loopRunning
    /\ report.handled
    /\ \E exception \in ReportedExceptions :
         report' = [context |-> Context(exception), handled |-> FALSE]
    /\ UNCHANGED <<verdict, botVars, authVars, heap, sessions, loopRunning, nextGuid>>

\* run, line 208: the loop hands the context of the failure to the handler
\* run() has set.
LoopReport ==
    /\ loopRunning
    /\ ~report.handled
    /\ loopRunning' = handle_exception(loopRunning, report.context)
    /\ report' = [report EXCEPT !.handled = TRUE]
    /\ UNCHANGED <<verdict, botVars, authVars, heap, sessions, nextGuid>>

\* Faulty variant of should_handle: only 'finished' counts as terminal.
should_handle_finished_only(status) == status # "finished"

\* Bot.should_handle
should_handle(status) == status \notin stop_at

\* Faulty variant of not_handled: the membership test left out.
not_handled_always(h, name) == TRUE

\* refresh_races, line 170
not_handled(h, name) == h[name] = NoTask

\* Faulty variant of skip_handled: no room of the list is skipped.
skip_handled_none(todo, h) == todo

\* refresh_races, lines 169-170: the names of the list left to visit, after
\* skipping those that have a handler.
RECURSIVE skip_handled(_, _)
skip_handled(todo, h) ==
    IF todo = <<>> THEN <<>>
    ELSE IF not_handled(h, Head(todo)) THEN todo
    ELSE skip_handled(Tail(todo), h)

\* the scan position once the names of todo are left to visit
ScanAt(todo, h) ==
    LET rest == skip_handled(todo, h) IN
    IF rest = <<>> THEN [pc |-> "list", todo |-> <<>>]
    ELSE [pc |-> "detail", todo |-> rest]

\* the local variables name and race_data of refresh_races: the room last
\* evaluated and the status.value of its detail (unset when a pass starts)
NoDetail == [name |-> "-", status |-> "-"]

\* the room lists the list endpoint can answer with, in the order it gives
RoomLists ==
    {<<>>} \cup {<<r>> : r \in Rooms}
           \cup {<<r, q>> : <<r, q>> \in {p \in Rooms \X Rooms : p[1] # p[2]}}

\* refresh_races, lines 160-170: the room list arrives, self.races is
\* replaced, the loop runs to the first room without a handler.
ScanList ==
    /\ loopRunning
    /\ scan.at.pc = "list"
    /\ \E list \in RoomLists :
         /\ races' = {list[i] : i \in 1..Len(list)}
         /\ scan' = [at |-> ScanAt(list, handlers), race_data |-> NoDetail]
    /\ UNCHANGED <<verdict, handlers, state, heap, sessions, loopRunning, report, authVars, nextGuid>>

\* Faulty variant of state_for: every handler gets a new empty mapping.
state_for_fresh(st, name, fresh) == fresh

\* create_handler, lines 112-114: the mapping a new handler for name gets
state_for(st, name, fresh) == IF st[name] = NoMap THEN fresh ELSE st[name]

\* create_handler, lines 104-119
create_handler(name, st, fresh, token) ==
    NewHandler(name, state_for(st, name, fresh), token)

FreeIds == {s \in SessionIds : sessions[s].pc = "unborn"}
NextId == CHOOSE s \in FreeIds : \A t \in FreeIds : s <= t

\* refresh_races, lines 171-186: the detail of the current room arrives and
\* is evaluated; then the loop runs on to the next room without a handler.
ScanDetail ==
    /\ loopRunning
    /\ scan.at.pc = "detail"
    /\ LET name == Head(scan.at.todo) IN
       \E status \in Statuses :
         /\ IF should_handle(status)
            THEN /\ FreeIds # {}
                 /\ LET s == NextId
                        h == create_handler(name, state, s, access_token)
                    IN  /\ sessions' = [sessions EXCEPT ![s] = h]
                        /\ state' = [state EXCEPT ![name] = h.state]
                        /\ heap' = IF h.state = s THEN [heap EXCEPT ![s] = {}]
                                   ELSE heap
                        /\ handlers' = [handlers EXCEPT ![name] = s]
            ELSE /\ state' = [state EXCEPT ![name] = NoMap]
                 /\ UNCHANGED <<sessions, heap, handlers>>
         /\ scan' = [at |-> ScanAt(Tail(scan.at.todo), handlers'),
                     race_data |-> [name |-> name, status |-> status]]
    /\ UNCHANGED <<verdict, races, loopRunning, report, authVars, nextGuid>>

\* Faulty variant of refresh_delay: the margin is taken off at the boundary.
refresh_delay_at_boundary(expires_in) ==
    IF expires_in >= SafetyMargin THEN expires_in - SafetyMargin ELSE expires_in

\* reauthorize, lines 139-143
refresh_delay(expires_in) ==
    IF expires_in > SafetyMargin THEN expires_in - SafetyMargin ELSE expires_in

\* the expires_in values the token endpoint answers with: the smallest ones,
\* those within MaxSlack of the margin, and the examples of the documentation
ExpiresIn ==
    (0..MaxSlack)
    \cup ((SafetyMargin - MaxSlack)..(SafetyMargin + MaxSlack))
    \cup {SafetyMargin \div 2, 2 * SafetyMargin, DefaultExpiresIn}

\* reauthorize, lines 137-144, with authorize, lines 89-97: the token
\* endpoint answers; without a token authorize raises, which ends the
\* reauthorize task with an exception nobody retrieves.
Reauthorize ==
    /\ loopRunning
    /\ auth.pc = "run"
    /\ \E tok \in Tokens \cup {None}, has_expires \in BOOLEAN, exp \in ExpiresIn :
         IF tok = None
         THEN /\ auth' = [pc |-> "dead", delay |-> 0, slept |-> auth.slept]
              /\ loopRunning' = call_exception_handler(loopRunning, "Exception")
              /\ UNCHANGED <<access_token, reauthorize_every>>
         ELSE /\ access_token' = tok
              /\ reauthorize_every' = IF has_expires THEN exp ELSE DefaultExpiresIn
              /\ auth' = [pc |-> "sleep",
                           delay |-> refresh_delay(reauthorize_every'),
                           slept |-> 0]
              /\ UNCHANGED loopRunning
    /\ UNCHANGED <<verdict, botVars, heap, sessions, report, nextGuid>>

\* the moments of a sleep of the given delay at which the other tasks are
\* looked at: half way through and at its end
Moments(delay) == {delay \div 2, delay}

\* reauthorize, line 144: time passes while the task sleeps
Elapse ==
    /\ loopRunning
    /\ auth.pc = "sleep"
    /\ \E t \in Moments(auth.delay) :
         /\ t > auth.slept
         /\ auth' = [auth EXCEPT !.slept = t]
    /\ UNCHANGED <<verdict, botVars, heap, sessions, loopRunning, report, access_token,
                   reauthorize_every, nextGuid>>

\* reauthorize, line 144: the delay has passed and the task is resumed
ReauthorizeWake ==
    /\ loopRunning
    /\ auth.pc = "sleep"
    /\ auth.slept >= auth.delay
    /\ auth' = [auth EXCEPT !.pc = "run"]
    /\ UNCHANGED <<verdict, botVars, heap, sessions, loopRunning, report, access_token,
                   reauthorize_every, nextGuid>>

\* --------------------------------------------------------- specifications
\* Bot.__init__ and Bot.run: no handlers, no races, no state; the token of
\* the constructor's authorize call; both loops about to make their first
\* request.
InitBot(tok, expires_in) ==
    /\ handlers = [r \in Rooms |-> NoTask]
    /\ races = {}
    /\ state = [r \in Rooms |-> NoMap]
    /\ heap = [m \in SessionIds |-> {}]
    /\ sessions = [s \in SessionIds |-> Unborn]
    /\ scan = [at |-> [pc |-> "list", todo |-> <<>>], race_data |-> NoDetail]
    /\ loopRunning = TRUE
    /\ report = NoReport
    /\ verdict = NoVerdict
    /\ access_token = tok
    /\ reauthorize_every = expires_in
    /\ auth = [pc |-> "run", delay |-> 0, slept |-> 0]
    /\ nextGuid = 1

\* The discovery loop and the room sessions, while reauthorize sleeps.
MsgsOrch ==
    {RaceData("finished"),
     Chat(<<"!", "w">>, FALSE, FALSE, "alice", FALSE)}

Init == InitBot("tokA", DefaultExpiresIn)

Next ==
    \/ ScanList
    \/ ScanDetail
    \/ \E s \in SessionIds :
         \/ Connect(s)
         \/ ServerSend(s, MsgsOrch)
         \/ Consume(s)
         \/ StopCheck(s)
         \/ ConnClosed(s)
         \/ TaskDone(s)

Spec == Init /\ [][Next]_vars

\* The reauthorize loop alone.
InitAuth == \E tok \in Tokens, e \in ExpiresIn : InitBot(tok, e)

NextAuth == Reauthorize \/ Elapse \/ ReauthorizeWake

SpecAuth == InitAuth /\ [][NextAuth]_vars

\* One room session alone: the state after the Bot created the handler of
\* room r1 and registered its task, then only that session runs.
InitSession(pc, inbox) ==
    /\ handlers = [r \in Rooms |-> IF r = "r1" THEN 1 ELSE NoTask]
    /\ races = {"r1"}
    /\ state = [r \in Rooms |-> IF r = "r1" THEN 1 ELSE NoMap]
    /\ heap = [m \in SessionIds |-> {}]
    /\ sessions = [s \in SessionIds |->
                     IF s = 1
                     THEN [NewHandler("r1", 1, "tokA")
                             EXCEPT !.pc = pc, !.inbox = inbox,
                                    !.begun = IF pc = "connecting" THEN 0 ELSE 1]
                     ELSE Unborn]
    /\ scan = [at |-> [pc |-> "list", todo |-> <<>>],
               race_data |-> [name |-> "r1", status |-> "open"]]
    /\ loopRunning = TRUE
    /\ report = NoReport
    /\ verdict = NoVerdict
    /\ access_token = "tokA"
    /\ reauthorize_every = DefaultExpiresIn
    /\ auth = [pc |-> "sleep", delay |-> refresh_delay(DefaultExpiresIn),
               slept |-> 0]
    /\ nextGuid = 1

\* chat texts: "!s d", "s d", "!b", "!w", "!m", "!n", "!d"
PlainTexts == {<<"!", "s", " ", "d">>, <<"s", " ", "d">>, <<"!", "b">>,
               <<"!", "w">>, <<"!", "d">>}
RestrictedTexts == {<<"!", "m">>, <<"!", "n">>}

MsgsHandler ==
    {RaceData(st) : st \in Statuses \cup {Null}}
    \cup {ErrorMsg, OtherMsg("ping")}
    \cup {Chat(t, FALSE, FALSE, "alice", FALSE) : t \in PlainTexts}
    \cup {Chat(t, TRUE, FALSE, "absent", FALSE) : t \in PlainTexts}
    \cup {Chat(t, FALSE, TRUE, "absent", FALSE) : t \in PlainTexts}
    \cup {Chat(t, FALSE, FALSE, u, mon) :
            t \in RestrictedTexts, u \in {"alice", "bob", "anon"}, mon \in BOOLEAN}
    \cup {Chat(t, TRUE, FALSE, "bob", TRUE) : t \in RestrictedTexts}

InitHandler == InitSession("connecting", <<>>)

NextHandler ==
    \E s \in {1} :
       \/ Connect(s)
       \/ ServerSend(s, MsgsHandler)
       \/ Consume(s)
       \/ StopCheck(s)
       \/ ConnClosed(s)

SpecHandler == InitHandler /\ [][NextHandler]_vars

\* The command router on every chat text of up to MaxLen characters: one
\* frame from a human sender is waiting on an open session.
Texts == UNION {[1..n -> Alphabet] : n \in 0..MaxLen}

InitRouter ==
    \E t \in Texts :
       InitSession("recv", <<Chat(t, FALSE, FALSE, "alice", FALSE)>>)

NextRouter == Consume(1) \/ StopCheck(1)

SpecRouter == InitRouter /\ [][NextRouter]_vars

\* The discovery loop and the room sessions when the server reports errors:
\* the frames are an error event and a race.data that keeps the room open.
MsgsFault == {ErrorMsg, RaceData("open")}

NextFault ==
    \/ ScanList
    \/ ScanDetail
    \/ \E s \in SessionIds :
         \/ Connect(s)
         \/ ServerSend(s, MsgsFault)
         \/ Consume(s)
         \/ StopCheck(s)
         \/ ConnClosed(s)
         \/ TaskDone(s)

SpecFault == Init /\ [][NextFault]_vars

\* The reauthorize loop with the passing of time, next to the discovery
\* loop whose create_handler reads the token.
NextClock ==
    \/ ScanList
    \/ ScanDetail
    \/ Reauthorize
    \/ Elapse
    \/ ReauthorizeWake

SpecClock == InitAuth /\ [][NextClock]_vars

\* The discovery loop, the room sessions and the reports of the loop: every
\* way a context reaches handle_exception.
NextPolicy == NextFault \/ LoopFailure \/ LoopReport

SpecPolicy == Init /\ [][NextPolicy]_vars

\* The discovery loop and the room sessions when the chat of the rooms uses
\* a command that answers: the moderator command, from a sender without and
\* from one with the permission.
MsgsChat ==
    {Chat(<<"!", "m">>, FALSE, FALSE, u, FALSE) : u \in {"alice", "bob"}}

NextChat ==
    \/ ScanList
    \/ ScanDetail
    \/ \E s \in SessionIds :
         \/ Connect(s)
         \/ ServerSend(s, MsgsChat)
         \/ Consume(s)
         \/ StopCheck(s)
         \/ ConnClosed(s)
         \/ TaskDone(s)

SpecChat == Init /\ [][NextChat]_vars

\* The order of processing: two different frames are waiting on the open
\* session of room r1 while the discovery loop starts the session of another room and
\* both sessions run.
MsgsOrder ==
    {RaceData("open"),
     Chat(<<"!", "w">>, FALSE, FALSE, "alice", FALSE)}

InitOrder ==
    \E m1 \in MsgsOrder :
       \E m2 \in MsgsOrder \ {m1} : InitSession("recv", <<m1, m2>>)

NextOrder ==
    \/ ScanList
    \/ ScanDetail
    \/ \E s \in SessionIds :
         \/ Connect(s)
         \/ ServerSend(s, MsgsOrder)
         \/ Consume(s)
         \/ StopCheck(s)
         \/ ConnClosed(s)
         \/ TaskDone(s)

SpecOrder == InitOrder /\ [][NextOrder]_vars

\* The permission predicates alone: a command of a bot built on the library
\* puts a chat message to both of them.  The chat messages cover every
\* combination of the sender's flags.
MsgsPerm ==
    {Chat(t, b, y, u, m) : t \in PlainTexts \cup RestrictedTexts,
                           b \in BOOLEAN, y \in BOOLEAN, u \in Users,
                           m \in BOOLEAN}

\* can_moderate(message) and can_monitor(message), called on one message
AskPermissions ==
    /\ \E message \in MsgsPerm :
          verdict' = [asked |-> TRUE, message |-> message,
                      can_moderate |-> can_moderate(message),
                      can_monitor |-> can_monitor(message)]
    /\ UNCHANGED <<botVars, authVars, heap, sessions, loopRunning, report,
                   nextGuid>>

NextPerm == AskPermissions

SpecPerm == InitHandler /\ [][NextPerm]_vars

\* The dispatch of consume on one session: frames without a type, frames
\* whose type names an attribute of the handler, a frame whose type names
\* nothing, and two of the built-in events.
MsgsDispatch ==
    {OtherMsg(type) : type \in {None, "ping"} \cup NonHandlerAttrs}
    \cup {RaceData("open"), ErrorMsg}

NextDispatch ==
    \E s \in {1} :
       \/ Connect(s)
       \/ ServerSend(s, MsgsDispatch)
       \/ Consume(s)
       \/ StopCheck(s)
       \/ ConnClosed(s)

SpecDispatch == InitHandler /\ [][NextDispatch]_vars

\* ----------------------------------------------------------------- claims
\* the step is the evaluation of a room's detail by refresh_races
IsScanDetail == scan.at.pc = "detail" /\ scan' # scan

\* session s is created in this step
Created(s) == sessions[s].pc = "unborn" /\ sessions'[s].pc # "unborn"

\* C1: no room name has two live session tasks at the same time, and the
\* live session of a room is the one registered under its name in handlers;
\* a session is started for a name only when the name has no entry.
C1_OneLiveSessionPerRoom ==
    /\ \A s, t \in SessionIds :
         (Live(s) /\ Live(t) /\ sessions[s].room = sessions[t].room) => s = t
    /\ \A s \in SessionIds : Live(s) => handlers[sessions[s].room] = s
    /\ scan.at.pc = "detail" => handlers[Head(scan.at.todo)] = NoTask

\* C1 witness: a room whose first session is over has a second, live one,
\* while the other room has no session.
C1_Witness ==
    \E s, t \in SessionIds :
       /\ s # t
       /\ sessions[s].room = sessions[t].room
       /\ sessions[s].pc = "reaped"
       /\ Live(t)
       /\ handlers[sessions[t].room] = t

\* C2: in the evaluation of a listed room without a handler, a detail whose
\* status is in stop_at creates no session, and any other status creates a
\* session task and registers it under the room's name.
C2_EligibilityDecides ==
    [][IsScanDetail =>
         LET name == Head(scan.at.todo)
             status == scan'.race_data.status
         IN  /\ scan'.race_data.name = name
             /\ handlers[name] = NoTask
             /\ status \in stop_at =>
                    /\ sessions' = sessions
                    /\ handlers' = handlers
             /\ status \notin stop_at =>
                    \E s \in SessionIds :
                       /\ Created(s)
                       /\ sessions'[s].pc = "connecting"
                       /\ sessions'[s].room = name
                       /\ handlers'[name] = s
                       /\ \A t \in SessionIds \ {s} : sessions'[t] = sessions[t]
      ]_vars

\* C2 witness: one pass listed both rooms; the one evaluated last has a
\* terminal status and no session, the other one got its session.
C2_Witness ==
    /\ races = Rooms
    /\ scan.at.pc = "list"
    /\ scan.race_data.status \in stop_at
    /\ handlers[scan.race_data.name] = NoTask
    /\ \E q \in Rooms \ {scan.race_data.name} :
          /\ handlers[q] # NoTask
          /\ sessions[handlers[q]].pc = "connecting"

\* C3: a session created for a room whose state entry exists receives that
\* very mapping, with its contents; a stored mapping never loses contents;
\* and an entry is deleted only by the evaluation of the room as ineligible.
C3_StateSurvives ==
    [][\A r \in Rooms :
         state[r] # NoMap =>
           /\ heap[state[r]] \subseteq heap'[state[r]]
           /\ \A s \in SessionIds :
                (Created(s) /\ sessions'[s].room = r) =>
                   /\ sessions'[s].state = state[r]
                   /\ state'[r] = state[r]
                   /\ heap'[state[r]] = heap[state[r]]
           /\ state'[r] # state[r] =>
                   /\ state'[r] = NoMap
                   /\ IsScanDetail
                   /\ Head(scan.at.todo) = r
                   /\ scan'.race_data.status \in stop_at
      ]_vars

\* C3 witness: the first session of a room wrote into its state and is
\* over; the second, live session of the room holds the mapping with it.
C3_Witness ==
    \E s, t \in SessionIds :
       /\ s # t
       /\ sessions[s].room = sessions[t].room
       /\ sessions[s].pc = "reaped"
       /\ Live(t)
       /\ sessions[t].state = sessions[s].state
       /\ state[sessions[t].room] = sessions[t].state
       /\ s \in heap[sessions[t].state]

\* C4: no two live sessions hold the same mapping, and the mapping a live
\* session holds is the one stored under its room name.
C4_SingleHolder ==
    /\ \A s, t \in SessionIds :
         (Live(s) /\ Live(t) /\ sessions[s].state = sessions[t].state) => s = t
    /\ \A s \in SessionIds : Live(s) => state[sessions[s].room] = sessions[s].state

\* C4 witness: two sessions are live at once, each has written into the
\* mapping it holds.
C4_Witness ==
    \E s, t \in SessionIds :
       /\ s # t
       /\ Live(s) /\ Live(t)
       /\ heap[sessions[s].state] = {s}
       /\ heap[sessions[t].state] = {t}

\* the frame m is a chat message that chat_message does not ignore
HumanChat(m) == m.type = "chat.message" /\ ~m.is_bot /\ ~m.is_system

\* session s leaves the head of the loop by reading the frame at the head
\* of its inbox
Reads(s) ==
    /\ sessions[s].pc = "recv"
    /\ sessions'[s].pc # "recv"
    /\ sessions[s].inbox # <<>>

\* session s leaves the stop-predicate check
Checks(s) == sessions[s].pc = "check" /\ sessions'[s].pc # "check"

\* C5: a session that consumes a race.data event with a terminal status
\* runs end() exactly once and leaves the loop; end() never runs twice, and
\* a session that is over reads nothing more from its inbox.
C5_StopRunsEndOnce ==
    [][\A s \in SessionIds :
         LET h == sessions[s]
             h2 == sessions'[s]
         IN  /\ (Reads(s) /\ Head(h.inbox).type = "race.data"
                          /\ Head(h.inbox).race \in stop_at) =>
                    (h2.pc = "check" /\ h2.data \in stop_at /\ h2.ended = 0)
             /\ (Checks(s) /\ h.msg.type = "race.data" /\ h.msg.race \in stop_at) =>
                    (h2.pc = "finished" /\ h2.ended = 1 /\ h2.exc = "none"
                       /\ h2.inbox = h.inbox)
             /\ h2.ended <= 1
             /\ h.pc = "finished" =>
                    (h2.pc \in {"finished", "reaped"}
                       /\ (h2.pc = "finished" => h2 = h))
      ]_vars

\* C5 witness: a session stopped on a terminal race.data with end() run
\* once, and a frame that arrived afterwards is left unread.
C5_Witness ==
    \E s \in SessionIds :
       /\ sessions[s].pc = "finished"
       /\ sessions[s].msg.type = "race.data"
       /\ sessions[s].data \in stop_at
       /\ sessions[s].ended = 1
       /\ sessions[s].inbox # <<>>

\* a human chat message that invokes ex_b, whose body raises an Exception
RaisingCommand(m) == HumanChat(m) /\ m.text = <<"!", "b">>

\* C6: an Exception raised by a command body is caught and logged: the
\* session goes on to its stop check with no exception, and from there back
\* to the head of the loop with its inbox intact.
C6_CommandExceptionIsolated ==
    [][\A s \in SessionIds :
         LET h == sessions[s]
             h2 == sessions'[s]
         IN  /\ (Reads(s) /\ RaisingCommand(Head(h.inbox))) =>
                    /\ h2.pc = "check"
                    /\ h2.exc = "none"
                    /\ h2.eff.ran = << <<"b">> >>
                    /\ h2.eff.log = <<"Command raised exception.">>
                    /\ h2.data = h.data
             /\ (Checks(s) /\ RaisingCommand(h.msg)) =>
                    /\ h2.pc = "recv"
                    /\ h2.exc = "none"
                    /\ h2.ended = 0
                    /\ h2.inbox = h.inbox
      ]_vars

\* C6 witness: the raising command was consumed, the exception is logged,
\* the session is in its loop and the next frame is waiting.
C6_Witness ==
    \E s \in SessionIds :
       /\ sessions[s].pc = "check"
       /\ RaisingCommand(sessions[s].msg)
       /\ sessions[s].eff.log # <<>>
       /\ sessions[s].exc = "none"
       /\ sessions[s].inbox # <<>>

\* str.split(): the words between runs of whitespace
IsSpace(c) == c \in {" ", TAB}

RECURSIVE FirstWord(_)
FirstWord(t) ==
    IF t = <<>> \/ IsSpace(Head(t)) THEN <<>>
    ELSE <<Head(t)>> \o FirstWord(Tail(t))

RECURSIVE WhitespaceWords(_)
WhitespaceWords(t) ==
    IF t = <<>> THEN <<>>
    ELSE IF IsSpace(Head(t)) THEN WhitespaceWords(Tail(t))
    ELSE <<FirstWord(t)>> \o WhitespaceWords(DropFirst(t, Len(FirstWord(t))))

\* the invocations C7 asks for on chat message m
RoutedCalls(m) ==
    LET words == WhitespaceWords(lower(m.text)) IN
    IF words # <<>> /\ startswith(words[1], <<"!">>)
                    /\ DropFirst(words[1], 1) \in Commands
    THEN <<[method |-> DropFirst(words[1], 1), args |-> Tail(words), message |-> m]>>
    ELSE <<>>

\* C7: a human chat message whose first whitespace-separated word starts
\* with the prefix invokes the handler of that word once, with the remaining
\* words as arguments and the message; any other text invokes nothing.
C7_WhitespaceRouting ==
    \A s \in SessionIds :
       (sessions[s].pc = "check" /\ HumanChat(sessions[s].msg)) =>
          sessions[s].eff.calls = RoutedCalls(sessions[s].msg)

\* C8: a chat message flagged is_bot or is_system invokes no command, sends
\* nothing, and leaves data, state and the mapping's contents unchanged.
C8_BotSystemIgnored ==
    [][\A s \in SessionIds :
         LET h == sessions[s]
             h2 == sessions'[s]
         IN  (Reads(s) /\ Head(h.inbox).type = "chat.message"
                       /\ (Head(h.inbox).is_bot \/ Head(h.inbox).is_system)) =>
                /\ h2.pc = "check"
                /\ h2.eff = NoEff
                /\ h2.exc = "none"
                /\ h2.data = h.data
                /\ h2.state = h.state
                /\ heap' = heap
                /\ nextGuid' = nextGuid
      ]_vars

\* C8 witness: a system message with the text of a registered command that
\* writes into the state was read; nothing was invoked or written.
C8_Witness ==
    \E s \in SessionIds :
       /\ sessions[s].pc = "check"
       /\ sessions[s].msg.type = "chat.message"
       /\ sessions[s].msg.is_system
       /\ sessions[s].msg.text = <<"!", "w">>
       /\ sessions[s].eff = NoEff
       /\ heap[sessions[s].state] = {}

\* the name a rejection is addressed to
Addressee(m) == IF m.user \in {"alice", "bob"} THEN m.user ELSE "friend"

\* the rejection texts of the two decorators
IsRejection(text) ==
    \E n \in {"alice", "bob", "friend"} :
       \/ text = <<"Sorry ", n, ", only moderators can do that.">>
       \/ text = <<"Sorry ", n, ", only race monitors can do that.">>

\* C9: a restricted command from a sender without the permission sends
\* exactly one frame, the rejection addressed to the sender's name or to
\* 'friend', and runs no body; with the permission the body runs and no
\* rejection is sent.
C9_PermissionGate ==
    \A s \in SessionIds :
       LET h == sessions[s]
           m == h.msg
           moderator == m.text = <<"!", "m">>
           allowed == IF moderator THEN can_moderate(m) ELSE can_monitor(m)
       IN  (h.pc = "check" /\ HumanChat(m) /\ m.text \in RestrictedTexts) =>
              /\ Len(h.eff.calls) = 1
              /\ allowed =>
                    /\ h.eff.ran = <<DropFirst(m.text, 1)>>
                    /\ \A i \in 1..Len(h.eff.sent) : ~IsRejection(h.eff.sent[i].message)
              /\ ~allowed =>
                    /\ h.eff.ran = <<>>
                    /\ ~h.eff.wrote
                    /\ Len(h.eff.sent) = 1
                    /\ h.eff.sent[1].action = "message"
                    /\ h.eff.sent[1].message =
                          IF moderator
                          THEN <<"Sorry ", Addressee(m), ", only moderators can do that.">>
                          ELSE <<"Sorry ", Addressee(m), ", only race monitors can do that.">>

\* C9 witness: a sender without a name and without moderator rights used
\* the moderator command and got the rejection addressed to 'friend'.
C9_Witness ==
    \E s \in SessionIds :
       /\ sessions[s].pc = "check"
       /\ HumanChat(sessions[s].msg)
       /\ sessions[s].msg.text = <<"!", "m">>
       /\ sessions[s].msg.user = "anon"
       /\ Len(sessions[s].eff.sent) = 1
       /\ sessions[s].eff.sent[1].message =
             <<"Sorry ", "friend", ", only moderators can do that.">>
       /\ sessions[s].eff.ran = <<>>

\* C10: the sleep scheduled after a token with validity expires_in is
\* expires_in - 600 above 600 and expires_in otherwise, and is positive for
\* every positive expires_in.
C10_RefreshDelay ==
    auth.pc = "sleep" =>
       LET e == reauthorize_every IN
       /\ e > 600 => auth.delay = e - 600
       /\ e <= 600 => auth.delay = e
       /\ e = 36000 => auth.delay = 35400
       /\ e = 300 => auth.delay = 300
       /\ e = 600 => auth.delay = 600
       /\ e > 0 => auth.delay > 0

\* C10 witness: the boundary, a token valid for exactly 600.
C10_Witness ==
    /\ auth.pc = "sleep"
    /\ reauthorize_every = 600
    /\ auth.delay = 600

\* the done callback of session s runs in this step
Reaped(s) == sessions[s].pc = "finished" /\ sessions'[s].pc = "reaped"

\* C11: the entry of a room stays in handlers while its task runs and, once
\* the task is over, until the done callback of that task; the callback
\* finds the entry and removes it; nothing else removes or replaces an entry.
C11_EntryRemovedAtTaskEnd ==
    [][/\ \A s \in SessionIds :
            /\ (Live(s) \/ sessions[s].pc = "finished") =>
                   handlers[sessions[s].room] = s
            /\ Reaped(s) =>
                   /\ handlers[sessions[s].room] = s
                   /\ handlers'[sessions[s].room] = NoTask
       /\ \A r \in Rooms :
            (handlers[r] # NoTask /\ handlers'[r] # handlers[r]) =>
               /\ handlers'[r] = NoTask
               /\ Reaped(handlers[r])
      ]_vars

\* C11 witness: the sessions of both rooms are over, both done callbacks ran
\* and neither room has an entry, while the loop runs on.
C11_Witness ==
    /\ loopRunning
    /\ \A r \in Rooms : handlers[r] = NoTask
    /\ \E s, t \in SessionIds :
          /\ s # t
          /\ sessions[s].room # sessions[t].room
          /\ sessions[s].pc = "reaped"
          /\ sessions[t].pc = "reaped"

\* C12: a session that reads an error event ends with the exception it
\* raises, and neither that end nor the report of the exception changes any
\* other session or stops the loop the other tasks run on.
C12_ErrorFatalToOneSession ==
    [][\A s \in SessionIds :
         /\ (Reads(s) /\ Head(sessions[s].inbox).type = "error") =>
               /\ sessions'[s].pc = "finished"
               /\ sessions'[s].exc = "Exception"
               /\ \A t \in SessionIds \ {s} : sessions'[t] = sessions[t]
               /\ loopRunning'
         /\ (Reaped(s) /\ sessions[s].msg.type = "error") =>
               /\ \A t \in SessionIds \ {s} : sessions'[t] = sessions[t]
               /\ scan' = scan
               /\ auth' = auth
               /\ loopRunning'
      ]_vars

\* the exceptions of a connection failure, a connection loss and a
\* session-ending error
SessionEndingErrors ==
    {"InvalidHandshake", "ConnectionClosed", "ConnectionClosedError",
     "Exception", "AttributeError", "TypeError"}

\* C13: when a session that ended by a connection failure, a connection
\* loss or a session-ending error is cleaned up, the room is left ready for
\* the next discovery pass to create its new session: the room has no
\* entry, its state mapping is still stored, and the loop that runs the
\* discovery passes is running.
C13_SelfHealing ==
    [][\A s \in SessionIds :
         (Reaped(s) /\ sessions[s].exc \in SessionEndingErrors) =>
            /\ handlers'[sessions[s].room] = NoTask
            /\ state'[sessions[s].room] = sessions[s].state
            /\ loopRunning'
      ]_vars

\* C14: every authorization attempt of the reauthorize loop, also one the
\* token endpoint answers without a token, leaves the loop going: it sleeps
\* or attempts again, and the event loop runs on.
C14_AuthRetried ==
    [][(auth.pc = "run" /\ auth' # auth) =>
          /\ auth'.pc \in {"run", "sleep"}
          /\ loopRunning'
      ]_vars

\* the token in access_token is within its validity: less than expires_in
\* has passed since it arrived (the time it took to arrive counted as none)
TokenValid == auth.slept < reauthorize_every

\* C15: whenever create_handler reads the access token for a new session,
\* the token it reads is within its validity, for every positive expires_in.
C15_TokenValidAtRead ==
    [][\A s \in SessionIds :
         (Created(s) /\ reauthorize_every > 0) =>
            /\ sessions'[s].token = access_token
            /\ TokenValid
      ]_vars

\* the context stops the loop: it carries no exception, or one whose class
\* is not in continue_on
Stops(ctx) == ctx.exception = None \/ ctx.exception \notin continue_on

\* the loop hands the context of the failure to handle_exception in this
\* step
Reported == ~report.handled /\ report'.handled

\* C16: a context that carries no exception, or an exception whose class is
\* not in continue_on, stops the loop; a context with an exception of a class
\* in continue_on leaves the loop running and every task as it was. The
\* exception a finished session task leaves behind is treated the same way,
\* and nothing else stops the loop.
C16_ExceptionPolicy ==
    [][/\ Reported =>
            /\ loopRunning' = ~Stops(report.context)
            /\ sessions' = sessions
            /\ scan' = scan
            /\ auth' = auth
       /\ \A s \in SessionIds :
            (Reaped(s) /\ sessions[s].exc # "none") =>
               /\ loopRunning' = (sessions[s].exc \in continue_on)
               /\ \A t \in SessionIds \ {s} : sessions'[t] = sessions[t]
       /\ loopRunning' # loopRunning =>
            \/ Reported /\ Stops(report.context)
            \/ \E s \in SessionIds :
                  Reaped(s) /\ Stops(Context(sessions[s].exc))
      ]_vars

\* C16 witness: a context without an exception stopped the loop while two
\* sessions were in their receive loops.
C16_Witness ==
    /\ ~loopRunning
    /\ report = [context |-> Context(None), handled |-> TRUE]
    /\ \A s \in {1, 2} : Open(s)

\* the text the moderator command passes to send_message for chat message m
TextToSend(m) ==
    IF can_moderate(m) THEN <<"...">>
    ELSE <<"Sorry ", Addressee(m), ", only moderators can do that.">>

\* C17: the call of send_message a chat command makes writes one frame,
\* with action 'message', the text it was given, and an id that no earlier
\* frame of any session carried: ids are handed out in increasing order, and
\* the frame's id is not below the next one to hand out.
C17_SendMessage ==
    [][/\ nextGuid' >= nextGuid
       /\ \A s \in SessionIds :
            (Reads(s) /\ HumanChat(Head(sessions[s].inbox))
                      /\ Head(sessions[s].inbox).text = <<"!", "m">>) =>
               LET sent == sessions'[s].eff.sent IN
               /\ Len(sent) = 1
               /\ sent[1].action = "message"
               /\ sent[1].message = TextToSend(Head(sessions[s].inbox))
               /\ sent[1].guid >= nextGuid
               /\ sent[1].guid < nextGuid'
               /\ \A t \in SessionIds \ {s} :
                    \A i \in 1..Len(sessions[t].eff.sent) :
                       sessions[t].eff.sent[i].guid < nextGuid
      ]_vars

\* C17 witness: two sessions have each sent a frame, one the rejection and
\* one the answer of the command, with different ids.
C17_Witness ==
    \E s, t \in SessionIds :
       /\ s # t
       /\ sessions[s].pc = "check" /\ sessions[t].pc = "check"
       /\ Len(sessions[s].eff.sent) = 1 /\ Len(sessions[t].eff.sent) = 1
       /\ sessions[s].eff.sent[1].message = <<"...">>
       /\ sessions[t].eff.sent[1].message # <<"...">>
       /\ sessions[s].eff.sent[1].guid # sessions[t].eff.sent[1].guid

\* the sequence a is the beginning of the sequence b
IsPrefix(a, b) == Len(a) <= Len(b) /\ SubSeq(b, 1, Len(a)) = a

\* C18: a session reads the frame that arrived first; while that frame is
\* processed, up to the end of its stop check, the session reads nothing,
\* frames that arrive queue behind the waiting ones, and no step of another
\* session changes what is being processed; a step changes one session
\* only, and a mapping is written only by the session that holds it.
C18_SerialInOrder ==
    [][/\ \A s \in SessionIds :
            LET h == sessions[s]
                h2 == sessions'[s]
            IN  /\ Reads(s) =>
                      /\ h2.msg = Head(h.inbox)
                      /\ h2.inbox = Tail(h.inbox)
                /\ h.pc = "check" =>
                      /\ IsPrefix(h.inbox, h2.inbox)
                      /\ h2.pc = "check" =>
                            (h2.msg = h.msg /\ h2.data = h.data /\ h2.eff = h.eff)
                      /\ h2.pc # "check" => h2.inbox = h.inbox
                /\ Len(h2.inbox) < Len(h.inbox) => (Reads(s) \/ Reaped(s))
                /\ (Live(s) /\ h2.data # h.data) => Reads(s)
                /\ (Live(s) /\ heap'[h.state] # heap[h.state]) => Reads(s)
       /\ Cardinality({s \in SessionIds : sessions'[s] # sessions[s]}) <= 1
      ]_vars

\* C18 witness: the first of the two waiting frames is being processed by
\* the session of room r1, the second one is still waiting, and another
\* session is in the middle of a frame of its own.
C18_Witness ==
    \E s, t \in SessionIds :
       /\ s # t
       /\ sessions[s].pc = "check"
       /\ sessions[s].begun = 1
       /\ sessions[s].inbox # <<>>
       /\ sessions[s].msg # Head(sessions[s].inbox)
       /\ sessions[t].pc = "check"

\* the step belongs to a discovery pass of refresh_races
IsScanStep == scan' # scan \/ races' # races

\* C19: a step of a discovery pass leaves every running session as it is,
\* with its entry in handlers, its state entry and the contents of its
\* mapping, whatever the fresh room list and the statuses say; and a
\* running session ends only in a step of its own: its stop check, an
\* exception of its own, or the close of its connection.
C19_NoForcedEnd ==
    [][\A s \in SessionIds :
         LET h == sessions[s]
             h2 == sessions'[s]
         IN  /\ (IsScanStep /\ Live(s)) =>
                   /\ h2 = h
                   /\ handlers'[h.room] = s
                   /\ state'[h.room] = h.state
                   /\ heap'[h.state] = heap[h.state]
             /\ (Live(s) /\ h2.pc \notin {"connecting", "recv", "check"}) =>
                   /\ ~IsScanStep
                   /\ h2.pc = "finished"
                   /\ handlers' = handlers
                   /\ state' = state
                   /\ \/ Checks(s) /\ h2.ended = 1 /\ h.data \in stop_at
                      \/ h2.exc # "none"
                      \/ h.pc = "recv" /\ h.inbox = <<>>
      ]_vars

\* C19 witness: a fresh room list without the room of a running session has
\* arrived, and the session is still running, registered and in possession
\* of its stored mapping.
C19_Witness ==
    \E s \in SessionIds :
       /\ sessions[s].pc = "check"
       /\ sessions[s].room \notin races
       /\ scan.at.pc = "list"
       /\ handlers[sessions[s].room] = s
       /\ state[sessions[s].room] = sessions[s].state
       /\ s \in heap[sessions[s].state]

\* the type of frame m, with dots replaced by underscores, names no
\* attribute of the session
Unmatched(m) ==
    m.type \notin {None, "race.data", "chat.message", "error"} \cup NonHandlerAttrs

\* C20: reading a frame whose type names no attribute of the session raises
\* nothing, sends nothing, and changes neither data nor the state mapping;
\* the stop check that follows takes the session back to the head of its
\* loop, with the waiting frames untouched.
C20_UnmatchedTypeIgnored ==
    [][\A s \in SessionIds :
         LET h == sessions[s]
             h2 == sessions'[s]
         IN  /\ (Reads(s) /\ Unmatched(Head(h.inbox))) =>
                   /\ h2.pc = "check"
                   /\ h2.exc = "none"
                   /\ h2.eff = NoEff
                   /\ h2.data = h.data
                   /\ h2.state = h.state
                   /\ heap' = heap
                   /\ nextGuid' = nextGuid
             /\ (Checks(s) /\ Unmatched(h.msg)) =>
                   /\ h2.pc = "recv"
                   /\ h2.exc = "none"
                   /\ h2.ended = 0
                   /\ h2.data = h.data
                   /\ h2.inbox = h.inbox
      ]_vars

\* C20 witness: a session that knows its room as open has read a frame of
\* type ping; nothing was done, and the next frame is waiting.
C20_Witness ==
    \E s \in SessionIds :
       /\ sessions[s].pc = "check"
       /\ sessions[s].msg.type = "ping"
       /\ sessions[s].data = "open"
       /\ sessions[s].eff = NoEff
       /\ sessions[s].exc = "none"
       /\ sessions[s].inbox # <<>>

\* C21 (as claimed): whenever the permission predicates are asked about a chat
\* message sent by a bot or by the system, both answer False, whatever the
\* other flags of the message are.
C21_BotsTestFalse ==
    verdict.asked /\ (verdict.message.is_bot \/ verdict.message.is_system)
        => ~verdict.can_moderate /\ ~verdict.can_monitor

\* C21, its second half: the predicates are independent, each holds of some
\* message of which the other does not.
C21_ModeratorOnly == verdict.asked /\ verdict.can_moderate /\ ~verdict.can_monitor
C21_MonitorOnly == verdict.asked /\ verdict.can_monitor /\ ~verdict.can_moderate

\* the sessions other than s that were created for the room of s and whose
\* done callback has not run yet
Unreaped(s, room) ==
    {t \in SessionIds \ {s} :
        sessions[t].room = room /\ sessions[t].pc \notin {"unborn", "reaped"}}

\* C22: a session is registered for a room name only when the done callback
\* of every earlier session of that name has run; so the callback of a
\* session finds its own entry under the name (not a newer session's, and
\* not a missing key), removes that entry and no other, and raises nothing.
C22_HookRemovesOwnEntry ==
    [][\A s \in SessionIds :
         /\ Created(s) =>
               /\ Unreaped(s, sessions'[s].room) = {}
               /\ handlers[sessions'[s].room] = NoTask
               /\ handlers'[sessions'[s].room] = s
         /\ Reaped(s) =>
               /\ Unreaped(s, sessions[s].room) = {}
               /\ handlers[sessions[s].room] = s
               /\ handlers' = [handlers EXCEPT ![sessions[s].room] = NoTask]
               /\ sessions'[s].exc # "KeyError"
      ]_vars

\* C22 witness: the done callback of the first session of a room has run
\* without a KeyError, and a newer session of the same room is running and
\* still registered under the name.
C22_Witness ==
    \E s, t \in SessionIds :
       /\ s # t
       /\ sessions[s].room = sessions[t].room
       /\ sessions[s].pc = "reaped"
       /\ sessions[s].exc = "none"
       /\ Open(t)
       /\ handlers[sessions[t].room] = t

\* the connection of session s opens, or fails to open, in this step
Connects(s) == sessions[s].pc = "connecting" /\ sessions'[s].pc # "connecting"

\* C23: begin() runs once, in the step in which the connection opens, and so
\* before any frame is read; it does not run when the connection fails to
\* open.  end() runs at most once, and only in a stop check whose predicate
\* holds: a session that ends with an exception (an error event, an event
\* handler or the stop check raising) or because its connection closed ends
\* without end().
C23_BeginAndEndHooks ==
    [][\A s \in SessionIds :
         LET h == sessions[s]
             h2 == sessions'[s]
         IN  /\ h.pc = "connecting" => h.begun = 0
             /\ Open(s) => h.begun = 1
             /\ Connects(s) =>
                   \/ h2.pc = "recv" /\ h2.begun = 1 /\ h2.exc = "none"
                   \/ h2.pc = "finished" /\ h2.begun = 0 /\ h2.exc # "none"
             /\ h2.begun > h.begun => Connects(s) /\ h2.pc = "recv"
             /\ Reads(s) => h.begun = 1 /\ h2.begun = 1
             /\ h2.ended > h.ended =>
                   /\ Checks(s)
                   /\ should_stop(h.data)
                   /\ h.ended = 0 /\ h2.ended = 1
                   /\ h2.pc = "finished" /\ h2.exc = "none"
             /\ (h.pc # "finished" /\ h2.pc = "finished"
                   /\ (h2.exc # "none" \/ h.pc = "recv")) =>
                   h.ended = 0 /\ h2.ended = 0
             /\ (h.pc = "finished" /\ h2.pc = "finished") => h2 = h
      ]_vars

\* C23 witness: a session whose connection opened has run begin() once, read
\* an error event and ended with its exception, without end().
C23_Witness ==
    \E s \in SessionIds :
       /\ sessions[s].pc = "finished"
       /\ sessions[s].msg.type = "error"
       /\ sessions[s].exc = "Exception"
       /\ sessions[s].begun = 1
       /\ sessions[s].ended = 0

\* frame m has no type, or its type names an attribute of the session that
\* is not an event handler
NotAnEvent(m) == m.type = None \/ m.type \in NonHandlerAttrs

\* C24 (as claimed): reading a frame without a type, or one whose type names
\* an attribute of the session that is not an event handler, is treated as
\* unhandled: nothing is called, sent or raised and the session goes on to
\* its stop check with its data unchanged.
C24_OnlyEventHandlersDispatched ==
    [][\A s \in SessionIds :
         (Reads(s) /\ NotAnEvent(Head(sessions[s].inbox))) =>
            /\ sessions'[s].pc = "check"
            /\ sessions'[s].exc = "none"
            /\ sessions'[s].eff = NoEff
            /\ sessions'[s].data = sessions[s].data
      ]_vars

====
